---- MODULE Spec2Model ----
(***************************************************************************)
(* Model of app.py, the AI Medical Report Analyzer: the text normalizer    *)
(* normalize_text, the entity filter extract_entities with the grouped     *)
(* entity rendering, the chunked summarizer summarize_large_report, and    *)
(* the "Analyze Report" button handler that sequences them.                *)
(*                                                                         *)
(* A text is a sequence of one-character strings.  The spaCy pipeline, the *)
(* BART tokenizer and the BART summarizer are external collaborators: what *)
(* they return (or that they raise) is a nondeterministic choice.          *)
(***************************************************************************)
EXTENDS Integers, Sequences, FiniteSets, TLC

\* ------------------------------------------------------------------ bounds
\* longest input string of the normalizer runs
MaxLen == 4
\* most windows a tokenized report is split into
MaxWindows == 3
\* longest span sequence the NER collaborator emits
MaxEnts == 3

\* ------------------------------------------------------- program constants
\* app.py:70   len(text.split()) < 80
MinWords == 80
\* app.py:76   max_input_tokens = 900
max_input_tokens == 900
\* app.py:106  len(combined_summary.split()) > 160
CompressWords == 160

VARIABLES
    \* normalize_text called as a function
    normPc, normIn, normOut, normTwice,
    \* extract_entities and the entities section
    entPc, nerOut, entities, display,
    \* summarize_large_report
    pc, text, tokens, i, chunks, log, summaries, combined, finalCalls,
    tokenizerCalls, result,
    \* the page: text area, button handler, rendered sections
    ui, raw_text, cleaned_text, summary, calls

normVars == <<normPc, normIn, normOut, normTwice>>
entVars  == <<entPc, nerOut, entities, display>>
sumVars  == <<pc, text, tokens, i, chunks, log, summaries, combined,
              finalCalls, tokenizerCalls, result>>
appVars  == <<ui, raw_text, cleaned_text, summary, calls>>
vars     == <<normVars, entVars, sumVars, appVars>>

\* ------------------------------------------------------- character classes
\* representatives of the classes the regular expressions of normalize_text
\* tell apart: [a-z], [A-Z], \d, [.,;:], \s and everything else
Lower      == {"a", "w"}
Upper      == {"B"}
Letter     == Lower \cup Upper
Digit      == {"1"}
Punct      == {".", ",", ";", ":"}
Whitespace == {" ", "\t"}
Alphabet   == {"a", "B", "1", ".", " ", "\t", "-"}

Min(S) == CHOOSE x \in S : \A y \in S : x <= y
Max(S) == CHOOSE x \in S : \A y \in S : x >= y

\* all strings over A of length at most n
StringsUpTo(A, n) == UNION {[1..k -> A] : k \in 0..n}

\* --------------------------------------------------------- normalize_text
\* re.sub(r'(X)(Y)', r'\1 \2', s).  The scan goes left to right and a match
\* takes both characters, so in a run of adjacent places where X is followed
\* by Y every second place is a match: the place k matches when the places
\* directly before it that could match are an even number.
PairAt(s, k, First, Second) ==
    k < Len(s) /\ s[k] \in First /\ s[k + 1] \in Second

Matches(s, First, Second) ==
    {k \in 1..Len(s) :
        /\ PairAt(s, k, First, Second)
        /\ \E j \in 0..(k - 1) :
              /\ j = 0 \/ ~PairAt(s, j, First, Second)
              /\ \A q \in (j + 1)..(k - 1) : PairAt(s, q, First, Second)
              /\ (k - 1 - j) % 2 = 0}

\* s from the place `from` on, with a space put in after every place of ms
RECURSIVE SpaceAfter(_, _, _)
SpaceAfter(s, from, ms) ==
    IF ms = {} THEN SubSeq(s, from, Len(s))
    ELSE LET k == Min(ms)
         IN  SubSeq(s, from, k) \o <<" ">> \o SpaceAfter(s, k + 1, ms \ {k})

SubPair(s, First, Second) == SpaceAfter(s, 1, Matches(s, First, Second))

\* s from the place `from` on, without the places of ds
RECURSIVE Without(_, _, _)
Without(s, from, ds) ==
    IF ds = {} THEN SubSeq(s, from, Len(s))
    ELSE LET k == Min(ds)
         IN  SubSeq(s, from, k - 1) \o Without(s, k + 1, ds \ {k})

\* re.sub(r'\s+', ' ', s): every maximal run of whitespace becomes one space
CollapseWs(s) ==
    LET spaced == SubSeq([k \in 1..Len(s) |->
                            IF s[k] \in Whitespace THEN " " ELSE s[k]], 1, Len(s))
        inRun  == {k \in 2..Len(s) : s[k] \in Whitespace /\ s[k - 1] \in Whitespace}
    IN  Without(spaced, 1, inRun)

\* str.strip()
Strip(s) ==
    LET keep == {k \in 1..Len(s) : s[k] \notin Whitespace}
    IN  IF keep = {} THEN <<>> ELSE SubSeq(s, Min(keep), Max(keep))

\* the first rule matching any letter followed by any letter (re.IGNORECASE)
LowerUpperLoose(s) == SubPair(s, Letter, Letter)
\* line 48: ([a-z])([A-Z])
LowerUpper(s) == SubPair(s, Lower, Upper)
\* line 49: ([.,;:])([A-Za-z])
PunctLetter(s) == SubPair(s, Punct, Letter)
\* line 50: (\d)([A-Za-z])
DigitLetter(s) == SubPair(s, Digit, Letter)
\* line 51: ([A-Za-z])(\d)
LetterDigit(s) == SubPair(s, Letter, Digit)

normalize_text(s) ==
    Strip(CollapseWs(LetterDigit(DigitLetter(PunctLetter(LowerUpper(s))))))

\* ------------------------------------------------------------------ texts
\* len(text.split()): the number of maximal runs of non-whitespace
WordCount(t) ==
    Cardinality({k \in 1..Len(t) :
        t[k] \notin Whitespace /\ (k = 1 \/ t[k - 1] \in Whitespace)})

\* n one-letter words separated by single spaces
MkText(n) == [k \in 1..(2 * n - 1) |-> IF k % 2 = 1 THEN "w" ELSE " "]

\* line 101
FallbackText ==
    <<
     "U", "n", "a", "b", "l", "e", " ", "t", "o", " ", "s", "a", "f", "e", "l", "y",
     " ", "s", "u", "m", "m", "a", "r", "i", "z", "e", " ", "t", "h", "i", "s", " ",
     "r", "e", "p", "o", "r", "t", " ", "d", "u", "e", " ", "t", "o", " ", "f", "o",
     "r", "m", "a", "t", "t", "i", "n", "g", " ", "o", "r", " ", "l", "e", "n", "g",
     "t", "h", "." >>

\* ------------------------------------------------- summarize_large_report
\* what the summarization pipeline may return as summary_text
SummaryTexts == {MkText(0), MkText(MinWords), MkText(MinWords + 1)}

\* lengths of input_ids the tokenizer may return for a report of 80 words or
\* more (BART adds a start and an end token): one window, and every window
\* count up to MaxWindows with the last window full or holding one token
TokenLens ==
    {MinWords + 2}
        \cup {k * max_input_tokens : k \in 1..MaxWindows}
        \cup {k * max_input_tokens + 1 : k \in 1..(MaxWindows - 1)}

\* seq[lo:hi] of Python, lo and hi counted from 0
\* the slice taking one element too many: seq[lo:hi + 1]
SliceOverlapping(seq, lo, hi) ==
    SubSeq(seq, lo + 1, IF hi + 1 < Len(seq) THEN hi + 1 ELSE Len(seq))
Slice(seq, lo, hi) ==
    SubSeq(seq, lo + 1, IF hi < Len(seq) THEN hi ELSE Len(seq))

\* " ".join(parts)
RECURSIVE Join(_)
Join(parts) ==
    IF parts = <<>> THEN <<>>
    ELSE IF Len(parts) = 1 THEN parts[1]
    ELSE parts[1] \o <<" ">> \o Join(Tail(parts))

\* the threshold applied to characters instead of words: len(text) < 80
IsShortByChars(t) == t = <<>> \/ Len(t) < MinWords
\* line 70: not text or len(text.split()) < 80
IsShort(t) == t = <<>> \/ WordCount(t) < MinWords

\* the summary put in front: summaries.insert(0, ...)
CollectFirst(ss, s) == <<s>> \o ss
\* line 96: summaries.append(...)
Collect(ss, s) == Append(ss, s)

\* the fallback branch never taken
NoneSucceededUnchecked(ss) == FALSE
\* line 100: not summaries
NoneSucceeded(ss) == ss = <<>>

\* the threshold met at 160 words already: >= 160
NeedsSecondPassFrom(c) == WordCount(c) >= CompressWords
\* line 106: len(combined_summary.split()) > 160
NeedsSecondPass(c) == WordCount(c) > CompressWords

\* lines 70-71
ShortCircuit ==
    /\ pc = "call"
    /\ IsShort(text)
    /\ result' = text
    /\ pc' = "returned"
    /\ UNCHANGED <<text, tokens, i, chunks, log, summaries, combined,
                   finalCalls, tokenizerCalls>>
    /\ UNCHANGED <<normVars, entVars, appVars>>

\* lines 73-82, the tokenizer returns input_ids
Tokenize ==
    /\ pc = "call"
    /\ ~IsShort(text)
    /\ \E n \in TokenLens : tokens' = [k \in 1..n |-> k]
    /\ tokenizerCalls' = tokenizerCalls + 1
    /\ i' = 0
    /\ summaries' = <<>>
    /\ pc' = "loop"
    /\ UNCHANGED <<text, chunks, log, combined, finalCalls, result>>
    /\ UNCHANGED <<normVars, entVars, appVars>>

\* lines 78-82, the tokenizer raises: nothing catches it
TokenizeRaises ==
    /\ pc = "call"
    /\ ~IsShort(text)
    /\ tokenizerCalls' = tokenizerCalls + 1
    /\ pc' = "raised"
    /\ UNCHANGED <<text, tokens, i, chunks, log, summaries, combined,
                   finalCalls, result>>
    /\ UNCHANGED <<normVars, entVars, appVars>>

\* line 84: the loop has a next window
InLoop == pc = "loop" /\ i < Len(tokens)

\* line 85
chunk_ids == Slice(tokens, i, i + max_input_tokens)

\* line 86, tokenizer.decode raises: outside the try, nothing catches it
DecodeRaises ==
    /\ InLoop
    /\ chunks' = Append(chunks, chunk_ids)
    /\ pc' = "raised"
    /\ UNCHANGED <<text, tokens, i, log, summaries, combined, finalCalls,
                   tokenizerCalls, result>>
    /\ UNCHANGED <<normVars, entVars, appVars>>

\* lines 85-96, the summarizer returns a summary for the window
ChunkSucceeds ==
    /\ InLoop
    /\ chunks' = Append(chunks, chunk_ids)
    /\ \E s \in SummaryTexts :
          /\ log' = Append(log, [start |-> i, ok |-> TRUE, out |-> s])
          /\ summaries' = Collect(summaries, s)
    /\ i' = i + max_input_tokens
    /\ UNCHANGED <<pc, text, tokens, combined, finalCalls, tokenizerCalls,
                   result>>
    /\ UNCHANGED <<normVars, entVars, appVars>>

\* lines 85-98, the summarizer raises: except Exception: continue
ChunkFails ==
    /\ InLoop
    /\ chunks' = Append(chunks, chunk_ids)
    /\ log' = Append(log, [start |-> i, ok |-> FALSE, out |-> <<>>])
    /\ i' = i + max_input_tokens
    /\ UNCHANGED <<pc, text, tokens, summaries, combined, finalCalls,
                   tokenizerCalls, result>>
    /\ UNCHANGED <<normVars, entVars, appVars>>

\* line 84: range(0, len(tokens), max_input_tokens) is exhausted
LoopDone == pc = "loop" /\ i >= Len(tokens)

\* lines 100-101
AllChunksFailed ==
    /\ LoopDone
    /\ NoneSucceeded(summaries)
    /\ result' = FallbackText
    /\ pc' = "returned"
    /\ UNCHANGED <<text, tokens, i, chunks, log, summaries, combined,
                   finalCalls, tokenizerCalls>>
    /\ UNCHANGED <<normVars, entVars, appVars>>

\* lines 103-106, 119
ReturnCombined ==
    /\ LoopDone
    /\ ~NoneSucceeded(summaries)
    /\ combined' = Join(summaries)
    /\ ~NeedsSecondPass(combined')
    /\ result' = combined'
    /\ pc' = "returned"
    /\ UNCHANGED <<text, tokens, i, chunks, log, summaries, finalCalls,
                   tokenizerCalls>>
    /\ UNCHANGED <<normVars, entVars, appVars>>

\* lines 103-115, the second summarizer call returns
SecondPassSucceeds ==
    /\ LoopDone
    /\ ~NoneSucceeded(summaries)
    /\ combined' = Join(summaries)
    /\ NeedsSecondPass(combined')
    /\ \E s \in SummaryTexts :
          /\ finalCalls' = Append(finalCalls, [arg |-> combined', ok |-> TRUE, out |-> s])
          /\ result' = s
    /\ pc' = "returned"
    /\ UNCHANGED <<text, tokens, i, chunks, log, summaries, tokenizerCalls>>
    /\ UNCHANGED <<normVars, entVars, appVars>>

\* lines 103-117, the second summarizer call raises
SecondPassFails ==
    /\ LoopDone
    /\ ~NoneSucceeded(summaries)
    /\ combined' = Join(summaries)
    /\ NeedsSecondPass(combined')
    /\ finalCalls' = Append(finalCalls, [arg |-> combined', ok |-> FALSE, out |-> <<>>])
    /\ result' = combined'
    /\ pc' = "returned"
    /\ UNCHANGED <<text, tokens, i, chunks, log, summaries, tokenizerCalls>>
    /\ UNCHANGED <<normVars, entVars, appVars>>

\* the state of summarize_large_report before its first statement
SumEntry ==
    /\ tokens = <<>>
    /\ i = 0
    /\ chunks = <<>>
    /\ log = <<>>
    /\ summaries = <<>>
    /\ combined = <<>>
    /\ finalCalls = <<>>
    /\ tokenizerCalls = 0
    /\ result = <<>>

\* reports summarize_large_report is called with: around the 80-word
\* threshold, with and without irregular whitespace
SumInputs ==
    {MkText(0), MkText(1), MkText(MinWords - 1), MkText(MinWords),
     MkText(MinWords + 1),
     <<" ">> \o MkText(MinWords - 1) \o <<" ", "\t">>,
     <<"\t">> \o MkText(MinWords) \o <<" ">>,
     <<" ", "\t">>}

\* ---------------------------------- extract_entities, the entities section
\* line 39
TARGET_LABELS == {"DISEASE", "DRUG", "DATE", "PROCEDURE", "ORG"}

\* code points of the characters of the spans, as Python compares strings
Ord == [c \in {"A", "F", "a", "i", "l", "n", "p", "r", "s", "u"} |->
          CASE c = "A" -> 65  [] c = "F" -> 70  [] c = "a" -> 97
            [] c = "i" -> 105 [] c = "l" -> 108 [] c = "n" -> 110
            [] c = "p" -> 112 [] c = "r" -> 114 [] c = "s" -> 115
            [] c = "u" -> 117]

\* the spans and labels the NER collaborator emits; PERSON is a label of
\* the spaCy model that is not a target label
NerSpans ==
    {<<"A", "s", "p", "i", "r", "i", "n">>,
     <<"a", "s", "p", "i", "r", "i", "n">>,
     <<"F", "l", "u">>}
NerLabels == {"DISEASE", "DRUG", "ORG", "PERSON"}
NerPairs == NerSpans \X NerLabels
NerOutputs == StringsUpTo(NerPairs, MaxEnts)

\* s < t on Python strings: lexicographic by code point
RECURSIVE StrLess(_, _)
StrLess(s, t) ==
    IF t = <<>> THEN FALSE
    ELSE IF s = <<>> THEN TRUE
    ELSE IF s[1] # t[1] THEN Ord[s[1]] < Ord[t[1]]
    ELSE StrLess(Tail(s), Tail(t))

\* sorted(items, reverse=True)
SortedDescending(S) ==
    CHOOSE q \in [1..Cardinality(S) -> S] :
        /\ \A a, b \in 1..Cardinality(S) : a < b => StrLess(q[b], q[a])
\* line 167: sorted(items)
Sorted(S) ==
    CHOOSE q \in [1..Cardinality(S) -> S] :
        /\ \A a, b \in 1..Cardinality(S) : a < b => StrLess(q[a], q[b])

\* line 167: ", ".join(...)
RECURSIVE JoinComma(_)
JoinComma(parts) ==
    IF parts = <<>> THEN <<>>
    ELSE IF Len(parts) = 1 THEN parts[1]
    ELSE parts[1] \o <<",", " ">> \o JoinComma(Tail(parts))

\* lines 58-66: the spans of doc.ents whose label is a target label
extract_entities(doc) == SelectSeq(doc, LAMBDA e : e[2] \in TARGET_LABELS)

\* lines 161-163: the keys of grouped_entities in insertion order
RECURSIVE LabelOrder(_)
LabelOrder(ents) ==
    IF ents = <<>> THEN <<>>
    ELSE LET front == LabelOrder(SubSeq(ents, 1, Len(ents) - 1))
             l     == ents[Len(ents)][2]
         IN  IF \E k \in 1..Len(front) : front[k] = l
             THEN front ELSE Append(front, l)

\* lines 161-163: grouped_entities[label], a set
GroupOf(ents, l) == {ents[k][1] : k \in {j \in 1..Len(ents) : ents[j][2] = l}}

\* lines 160-169: what the entities section shows
EntitiesSection(ents) ==
    IF ents # <<>>
    THEN [message |-> "",
          groups  |-> [k \in 1..Len(LabelOrder(ents)) |->
                         LET l == LabelOrder(ents)[k]
                         IN  [label |-> l,
                              items |-> Sorted(GroupOf(ents, l)),
                              line  |-> JoinComma(Sorted(GroupOf(ents, l)))]]]
    ELSE [message |-> "No relevant entities detected.", groups |-> <<>>]

NothingShown == [message |-> "", groups |-> <<>>]

\* lines 58-66 called on a document of the NER collaborator
ExtractEntities ==
    /\ entPc = "input"
    /\ entities' = extract_entities(nerOut)
    /\ entPc' = "extracted"
    /\ UNCHANGED <<nerOut, display>>
    /\ UNCHANGED <<normVars, sumVars, appVars>>

\* lines 160-169
RenderEntities ==
    /\ entPc = "extracted"
    /\ display' = EntitiesSection(entities)
    /\ entPc' = "rendered"
    /\ UNCHANGED <<nerOut, entities>>
    /\ UNCHANGED <<normVars, sumVars, appVars>>

\* ------------------------------------------- normalize_text as a function
Normalize ==
    /\ normPc = "input"
    /\ normOut' = normalize_text(normIn)
    /\ normPc' = "once"
    /\ UNCHANGED <<normIn, normTwice>>
    /\ UNCHANGED <<entVars, sumVars, appVars>>

Renormalize ==
    /\ normPc = "once"
    /\ normTwice' = normalize_text(normOut)
    /\ normPc' = "twice"
    /\ UNCHANGED <<normIn, normOut>>
    /\ UNCHANGED <<entVars, sumVars, appVars>>

\* --------------------------------------- the "Analyze Report" button handler
\* longest short report typed into the text area
AppMaxLen == 2

\* reports typed into the text area: every short string, and a long report
\* with run-together words and irregular whitespace
RawTexts ==
    StringsUpTo(Alphabet, AppMaxLen)
        \cup {<<"\t">> \o MkText(MinWords - 1) \o <<"a", "B", " ">>}

\* documents of the NER collaborator during a request
AppNerOutputs ==
    {<<>>} \cup {<< <<<<"F", "l", "u">>, l>> >> : l \in NerLabels}

\* the summarizer given the text as typed: summarize_large_report(raw_text)
SummarizerArgRaw(raw, cleaned) == raw
\* line 153: summarize_large_report(cleaned_text)
SummarizerArg(raw, cleaned) == cleaned

\* line 147: not raw_text.strip()
IsBlank(raw) == Strip(raw) = <<>>

\* lines 146-148
AnalyzeBlank ==
    /\ ui = "idle"
    /\ IsBlank(raw_text)
    /\ ui' = "warning"
    /\ UNCHANGED <<raw_text, cleaned_text, summary, calls>>
    /\ UNCHANGED <<entVars, sumVars>>
    /\ UNCHANGED normVars

\* lines 146-153, up to the call of summarize_large_report
AnalyzeStart ==
    /\ ui = "idle"
    /\ ~IsBlank(raw_text)
    /\ cleaned_text' = normalize_text(raw_text)
    /\ \E doc \in AppNerOutputs :
          /\ nerOut' = doc
          /\ entities' = extract_entities(doc)
    /\ text' = SummarizerArg(raw_text, cleaned_text')
    /\ calls' = <<[fn |-> "normalize_text", arg |-> raw_text],
                  [fn |-> "extract_entities", arg |-> cleaned_text'],
                  [fn |-> "summarize_large_report", arg |-> text']>>
    /\ pc' = "call"
    /\ ui' = "analyzing"
    /\ UNCHANGED <<raw_text, summary, entPc, display>>
    /\ UNCHANGED <<tokens, i, chunks, log, summaries, combined, finalCalls,
                   tokenizerCalls, result>>
    /\ UNCHANGED normVars

\* lines 151-152, the NER collaborator raises: nothing catches it
AnalyzeExtractRaises ==
    /\ ui = "idle"
    /\ ~IsBlank(raw_text)
    /\ cleaned_text' = normalize_text(raw_text)
    /\ calls' = <<[fn |-> "normalize_text", arg |-> raw_text],
                  [fn |-> "extract_entities", arg |-> cleaned_text']>>
    /\ ui' = "error"
    /\ UNCHANGED <<raw_text, summary>>
    /\ UNCHANGED <<entVars, sumVars>>
    /\ UNCHANGED normVars

\* lines 158-199, after summarize_large_report returned
Render ==
    /\ ui = "analyzing"
    /\ pc = "returned"
    /\ display' = EntitiesSection(entities)
    /\ summary' = result
    /\ ui' = "result"
    /\ UNCHANGED <<raw_text, cleaned_text, calls, entPc, nerOut, entities>>
    /\ UNCHANGED sumVars
    /\ UNCHANGED normVars

\* line 153, summarize_large_report raised: the request ends in the error
Crash ==
    /\ ui = "analyzing"
    /\ pc = "raised"
    /\ ui' = "error"
    /\ UNCHANGED <<raw_text, cleaned_text, summary, calls>>
    /\ UNCHANGED <<entVars, sumVars>>
    /\ UNCHANGED normVars

\* ---------------------------------------------------------- specifications
NormIdle == normPc = "off" /\ normIn = <<>> /\ normOut = <<>> /\ normTwice = <<>>
EntIdle  == entPc = "off" /\ nerOut = <<>> /\ entities = <<>> /\ display = NothingShown
SumIdle  == pc = "idle" /\ text = <<>> /\ SumEntry
AppIdle  == ui = "off" /\ raw_text = <<>> /\ cleaned_text = <<>> /\ summary = <<>>
            /\ calls = <<>>

SumStep ==
    \/ ShortCircuit
    \/ Tokenize
    \/ TokenizeRaises
    \/ DecodeRaises
    \/ ChunkSucceeds
    \/ ChunkFails
    \/ AllChunksFailed
    \/ ReturnCombined
    \/ SecondPassSucceeds
    \/ SecondPassFails

\* normalize_text applied to every short string, then to its own output
InitNorm ==
    /\ normPc = "input"
    /\ normIn \in StringsUpTo(Alphabet, MaxLen)
    /\ normOut = <<>>
    /\ normTwice = <<>>
    /\ EntIdle /\ SumIdle /\ AppIdle
NextNorm == Normalize \/ Renormalize
SpecNorm == InitNorm /\ [][NextNorm]_vars

\* extract_entities and the entities section on every NER document
InitEnt ==
    /\ entPc = "input"
    /\ nerOut \in NerOutputs
    /\ entities = <<>>
    /\ display = NothingShown
    /\ NormIdle /\ SumIdle /\ AppIdle
NextEnt == ExtractEntities \/ RenderEntities
SpecEnt == InitEnt /\ [][NextEnt]_vars

\* summarize_large_report called on a report
InitSum ==
    /\ pc = "call"
    /\ text \in SumInputs
    /\ SumEntry
    /\ NormIdle /\ EntIdle /\ AppIdle
NextSum == SumStep
SpecSum == InitSum /\ [][NextSum]_vars

\* one request of the page: a report in the text area, the button pressed
Init ==
    /\ ui = "idle"
    /\ raw_text \in RawTexts
    /\ cleaned_text = <<>>
    /\ summary = <<>>
    /\ calls = <<>>
    /\ NormIdle /\ EntIdle /\ SumIdle
Next ==
    \/ AnalyzeBlank
    \/ AnalyzeStart
    \/ AnalyzeExtractRaises
    \/ SumStep
    \/ Render
    \/ Crash
Spec == Init /\ [][Next]_vars

\* ------------------------------------------------------------------ claims
\* a text with no character that is not whitespace
OnlyWhitespace(t) == \A k \in 1..Len(t) : t[k] \in Whitespace

\* the summaries the summarizer returned, in the order of the windows
GoodOuts ==
    LET good == SelectSeq(log, LAMBDA e : e.ok)
    IN  [k \in 1..Len(good) |-> good[k].out]

\* the windows laid end to end
RECURSIVE Flatten(_)
Flatten(ws) == IF ws = <<>> THEN <<>> ELSE ws[1] \o Flatten(Tail(ws))

\* where the k-th part starts in the single-space join of parts
RECURSIVE PartStart(_, _)
PartStart(parts, k) ==
    IF k = 1 THEN 1 ELSE PartStart(parts, k - 1) + Len(parts[k - 1]) + 1

\* t is the parts in order with exactly one space between neighbours
IsSpaceJoin(t, parts) ==
    LET n == Len(parts)
    IN  /\ n > 0
        /\ Len(t) = PartStart(parts, n) + Len(parts[n]) - 1
        /\ \A k \in 1..n :
              SubSeq(t, PartStart(parts, k), PartStart(parts, k) + Len(parts[k]) - 1)
                  = parts[k]
        /\ \A k \in 1..(n - 1) : t[PartStart(parts, k) + Len(parts[k])] = " "

\* C1: summarize_large_report never raises, whatever collaborator fails: the
\* call never ends with an exception propagating to the caller.
C1_NeverRaises == pc # "raised"

\* C2: a report of fewer than 80 words (the empty one included) is returned
\* exactly as given, and neither the tokenizer nor the summarizer is called.
C2_ShortPassThrough ==
    (pc # "call" /\ WordCount(text) < MinWords) =>
        /\ pc = "returned"
        /\ result = text
        /\ tokenizerCalls = 0
        /\ chunks = <<>>
        /\ log = <<>>
        /\ finalCalls = <<>>

C2_Witness ==
    /\ pc = "returned"
    /\ WordCount(text) = MinWords - 1
    /\ text[1] \in Whitespace
    /\ result = text

\* C3: for a report of 80 words or more, when the summarizer call of every
\* window failed the call returns exactly the fallback sentence and no
\* second-pass call is made.
C3_AllFailedFallback ==
    (/\ pc = "returned"
     /\ WordCount(text) >= MinWords
     /\ \A k \in 1..Len(log) : ~log[k].ok) =>
        /\ result = FallbackText
        /\ finalCalls = <<>>

C3_Witness ==
    /\ pc = "returned"
    /\ Len(log) = 3
    /\ \A k \in 1..Len(log) : ~log[k].ok
    /\ result = FallbackText

\* C4: for a report of 80 words or more the returned string is never empty,
\* whatever the summarizer returns and whichever of its calls fail.
C4_NonEmptyResult ==
    (pc = "returned" /\ WordCount(text) >= MinWords) => result # <<>>

\* C5: the windows are submitted to the summarizer once each and in order, a
\* failed window neither stops the later ones nor leaves anything in the
\* summaries, and the combined summary is the successful summaries in window
\* order with single spaces between them.
C5_OnceInOrderJoined ==
    /\ \A k \in 1..Len(log) : log[k].start = (k - 1) * max_input_tokens
    /\ summaries = GoodOuts
    /\ (pc = "returned" /\ tokenizerCalls = 1) =>
          /\ Len(log) * max_input_tokens >= Len(tokens)
          /\ GoodOuts # <<>> => IsSpaceJoin(combined, GoodOuts)

C5_Witness ==
    /\ pc = "returned"
    /\ Len(log) = 3
    /\ log[1].ok /\ ~log[2].ok /\ log[3].ok
    /\ log[1].out # log[3].out
    /\ combined = log[1].out \o <<" ">> \o log[3].out

\* C6: normalize_text applied to its own output changes nothing.
C6_Idempotent == normPc = "twice" => normTwice = normOut

C6_Witness ==
    /\ normPc = "twice"
    /\ normIn = <<".", "a", "B", "1">>
    /\ normOut = <<".", " ", "a", " ", "B", " ", "1">>
    /\ normTwice = normOut

\* C7: pressing Analyze on a blank report gives the warning and calls none of
\* normalize_text, extract_entities, summarize_large_report; on any other
\* report normalize_text is called once, on the raw text, and extract_entities
\* and summarize_large_report are each called on its result.
C7_Sequencing ==
    LET calledWith(f) == {calls[k].arg : k \in {j \in 1..Len(calls) : calls[j].fn = f}}
        times(f) == Cardinality({j \in 1..Len(calls) : calls[j].fn = f})
    IN  /\ (ui # "idle" /\ OnlyWhitespace(raw_text)) =>
              ui = "warning" /\ calls = <<>> /\ pc = "idle"
        /\ (ui # "idle" /\ ~OnlyWhitespace(raw_text)) =>
              /\ ui # "warning"
              /\ times("normalize_text") = 1
              /\ calledWith("normalize_text") = {raw_text}
              /\ cleaned_text = normalize_text(raw_text)
              /\ calledWith("extract_entities") = {cleaned_text}
              /\ calledWith("summarize_large_report") \subseteq {cleaned_text}
        /\ ui \in {"analyzing", "result"} =>
              /\ times("extract_entities") = 1
              /\ times("summarize_large_report") = 1
              /\ text = cleaned_text

C7_Witness ==
    /\ ui = "result"
    /\ raw_text = <<"a", "B">>
    /\ cleaned_text = <<"a", " ", "B">>
    /\ text = cleaned_text
    /\ summary = cleaned_text

\* C8: the entities section shows exactly the spans with a label among
\* DISEASE, DRUG, DATE, PROCEDURE, ORG, one group per label, every distinct
\* span once per label and in ascending order; with no such span it shows
\* "No relevant entities detected." and no group.
C8_Grouping ==
    LET allowed == {"DISEASE", "DRUG", "DATE", "PROCEDURE", "ORG"}
        spansOf(l) == {nerOut[k][1] : k \in {j \in 1..Len(nerOut) : nerOut[j][2] = l}}
        shown == {l \in allowed : spansOf(l) # {}}
        g == display.groups
    IN  entPc = "rendered" =>
            IF shown = {}
            THEN display.message = "No relevant entities detected." /\ g = <<>>
            ELSE /\ display.message = ""
                 /\ {g[k].label : k \in 1..Len(g)} = shown
                 /\ Len(g) = Cardinality(shown)
                 /\ \A k \in 1..Len(g) :
                       /\ {g[k].items[j] : j \in 1..Len(g[k].items)} = spansOf(g[k].label)
                       /\ \A a, b \in 1..Len(g[k].items) :
                             a < b => StrLess(g[k].items[a], g[k].items[b])
                       /\ g[k].line = JoinComma(g[k].items)

C8_Witness ==
    /\ entPc = "rendered"
    /\ nerOut = << <<<<"A", "s", "p", "i", "r", "i", "n">>, "DRUG">>,
                   <<<<"a", "s", "p", "i", "r", "i", "n">>, "DRUG">>,
                   <<<<"F", "l", "u">>, "DISEASE">> >>
    /\ Len(display.groups) = 2
    /\ display.groups[1].label = "DRUG"
    /\ display.groups[1].items = << <<"A", "s", "p", "i", "r", "i", "n">>,
                                    <<"a", "s", "p", "i", "r", "i", "n">> >>
    /\ display.groups[2].label = "DISEASE"
    /\ display.groups[2].items = << <<"F", "l", "u">> >>

\* C9: the windows cut from a token sequence of length L are consecutive and
\* do not overlap, each holds between 1 and 900 tokens, laid end to end they
\* are the token sequence, and there are ceil(L / 900) of them.
C9_Windows ==
    /\ \A k \in 1..Len(chunks) :
          Len(chunks[k]) >= 1 /\ Len(chunks[k]) <= max_input_tokens
    /\ Flatten(chunks) = SubSeq(tokens, 1, Len(Flatten(chunks)))
    /\ (pc = "returned" /\ tokenizerCalls = 1) =>
          /\ Flatten(chunks) = tokens
          /\ Len(chunks) = (Len(tokens) + max_input_tokens - 1) \div max_input_tokens

C9_Witness ==
    /\ pc = "returned"
    /\ Len(tokens) = 2 * max_input_tokens + 1
    /\ Len(chunks) = 3
    /\ Len(chunks[3]) = 1
    /\ chunks[2][1] = max_input_tokens + 1

\* C10: once a window summary succeeded, a combined summary of more than 160
\* words is summarized once more, exactly once, and the call returns that
\* output, or the combined summary when the second call fails; a combined
\* summary of 160 words or fewer is returned with no further call.
C10_SecondPass ==
    /\ Len(finalCalls) <= 1
    /\ (pc = "returned" /\ \E k \in 1..Len(log) : log[k].ok) =>
          IF WordCount(combined) > CompressWords
          THEN /\ Len(finalCalls) = 1
               /\ finalCalls[1].arg = combined
               /\ result = IF finalCalls[1].ok THEN finalCalls[1].out ELSE combined
          ELSE /\ finalCalls = <<>>
               /\ result = combined

C10_Witness ==
    /\ pc = "returned"
    /\ WordCount(combined) = CompressWords + 1
    /\ Len(finalCalls) = 1
    /\ ~finalCalls[1].ok
    /\ result = combined
====
